---- MODULE Spec2Model ----
(***************************************************************************)
(* Model of src/experimental/argset-chaining/setspace.py: the set trie     *)
(* (TrieNode, SetSpace) with its query algorithms and the registry         *)
(* (SpaceManager) that owns the tries.                                     *)
(*                                                                         *)
(* Labels are the strings str(elem); they are modelled by their rank in    *)
(* the lexicographic order, so 1 < 2 < 3 stands for "A" < "B" < "C".       *)
(* A trie is a function from node paths (the sequence of edge labels from  *)
(* the root) to the node's value, None when the node holds no value.       *)
(***************************************************************************)
EXTENDS Integers, Sequences, FiniteSets, TLC

\* ---- bounds of the model ----
\* MaxLen      the longest expression handed to an operation
\* MaxAdds     add_to_space calls that reach a space, per behaviour
\* MaxDeepAdds, MaxDeepLen   the adds and the longest query of the
\*             specification that goes one step deeper, SpecSpace
\* MaxCreates  create_space calls per behaviour
MaxLen == 2
MaxAdds == 2
MaxDeepAdds == 3
MaxDeepLen == 3
MaxCreates == 2

\* The universes: labels "A" < "B" < "C", two values, two space names.
None == 0
Labels == {1, 2, 3}
Values == {1, 2}
Handles == {1, 2}

SeqToSet(s) == {s[i] : i \in DOMAIN s}

Min(S) == CHOOSE x \in S : \A y \in S : x <= y

Max(S) == CHOOSE x \in S : \A y \in S : x >= y

RECURSIVE Descending(_)
Descending(S) ==
  IF S = {} THEN << >> ELSE <<Max(S)>> \o Descending(S \ {Max(S)})

\* The expressions handed to add_to_space: any label sequence, in any order,
\* repeats allowed.
Exprs == UNION {[1..n -> Labels] : n \in 0..MaxLen}

\* The expressions handed to the queries: per label set of up to n labels one
\* expression, its labels in descending order.
Queries(n) == {Descending(S) : S \in {T \in SUBSET Labels : Cardinality(T) <= n}}

\* ---- TrieNode / SetSpace ----

\* SetSpace.__init__: a root node without value and without children.
EmptyTrie == (<< >> :> None)

\* The keys of node.children, a SortedDict: ascending.
RECURSIVE SortedSeqOf(_)
SortedSeqOf(S) ==
  IF S = {} THEN << >> ELSE <<Min(S)>> \o SortedSeqOf(S \ {Min(S)})

LabelsAscending == SortedSeqOf(Labels)

children(trie, node) ==
  LET IsChild(l) == Append(node, l) \in DOMAIN trie
  IN  SelectSeq(LabelsAscending, IsChild)

\* sorted(str(elem) for elem in elements): ascending, repeats kept.
InsertSorted(x, s) ==
  LET k == Cardinality({i \in 1..Len(s) : s[i] <= x})
  IN  SubSeq(s, 1, k) \o <<x>> \o SubSeq(s, k + 1, Len(s))

RECURSIVE sorted(_)
sorted(s) == IF s = << >> THEN << >> ELSE InsertSorted(Head(s), sorted(Tail(s)))

Prefixes(s) == {SubSeq(s, 1, k) : k \in 0..Len(s)}

\* SetSpace.add: walk/create the nodes of the sorted sequence, set the value
\* of the last one, return the value it held before.
add(trie, expr, value) ==
  LET sorted_elements == sorted(expr)
      nodes == DOMAIN trie \cup Prefixes(sorted_elements)
      old_value == IF sorted_elements \in DOMAIN trie
                   THEN trie[sorted_elements] ELSE None
  IN  [trie |-> [p \in nodes |->
                   IF p = sorted_elements THEN value
                   ELSE IF p \in DOMAIN trie THEN trie[p] ELSE None],
       old_value |-> old_value]

\* The Optional[Tuple[Set[str], Atom]] of _find_best_match.
NoMatch == [found |-> FALSE, set |-> {}, value |-> None]
Match(path, value) == [found |-> TRUE, set |-> path, value |-> value]

\* SetSpace._find_best_match; best_over is its loop over node.children.
RECURSIVE find_best_match(_, _, _, _)
RECURSIVE best_over(_, _, _, _, _, _)
best_over(trie, node, elements, current_path, kids, best_match) ==
  IF kids = << >> THEN best_match
  ELSE LET elem == Head(kids)
           deeper_match ==
             IF elem \in elements
             THEN find_best_match(trie, Append(node, elem), elements,
                                  current_path \cup {elem})
             ELSE NoMatch
           next_best ==
             IF /\ elem \in elements
                /\ deeper_match.found
                /\ \/ ~best_match.found
                   \/ Cardinality(deeper_match.set) > Cardinality(best_match.set)
             THEN deeper_match ELSE best_match
       IN  best_over(trie, node, elements, current_path, Tail(kids), next_best)

\* Mutant: the search follows every child, in the query or not.
find_best_match_any_child(trie, node, elements, current_path) ==
  best_over(trie, node, Labels, current_path, children(trie, node),
            IF trie[node] # None THEN Match(current_path, trie[node]) ELSE NoMatch)

find_best_match(trie, node, elements, current_path) ==
  best_over(trie, node, elements, current_path, children(trie, node),
            IF trie[node] # None THEN Match(current_path, trie[node]) ELSE NoMatch)

\* SetSpace.lookup, the while loop.  The record returned carries the list the
\* code returns (result) and, for the properties, what the loop did: the
\* picks (elem and the elements left when it was picked) and, per appended
\* value, the labels that step consumed (elem and match_set).
RECURSIVE lookup_loop(_, _, _, _)
lookup_loop(trie, elements, partial, run) ==
  IF elements = {} THEN run
  ELSE LET elem == Min(elements)
           rest == elements \ {elem}
           picked == [run EXCEPT !.picks = Append(@, [elem |-> elem, elements |-> rest])]
           failure == [picked EXCEPT !.result = << >>, !.cover = << >>]
       IN  IF <<elem>> \notin DOMAIN trie
           THEN IF partial THEN lookup_loop(trie, rest, partial, picked)
                ELSE failure
           ELSE LET match == find_best_match(trie, <<elem>>, rest, {})
                IN  IF ~match.found
                    THEN IF partial THEN lookup_loop(trie, rest, partial, picked)
                         ELSE failure
                    ELSE lookup_loop(trie, rest \ match.set, partial,
                           [picked EXCEPT
                              !.result = Append(@, match.value),
                              !.cover = Append(@, {elem} \cup match.set)])

\* Mutant: an unmatched label is skipped in exact mode too.
lookup_run_always_partial(trie, query, partial) ==
  lookup_loop(trie, SeqToSet(query), TRUE,
              [result |-> << >>, cover |-> << >>, picks |-> << >>])

\* Mutant: an unmatched label ends the lookup in partial mode too.
lookup_run_never_partial(trie, query, partial) ==
  lookup_loop(trie, SeqToSet(query), FALSE,
              [result |-> << >>, cover |-> << >>, picks |-> << >>])

lookup_run(trie, query, partial) ==
  lookup_loop(trie, SeqToSet(query), partial,
              [result |-> << >>, cover |-> << >>, picks |-> << >>])

lookup(trie, query, partial) == lookup_run(trie, query, partial).result

\* SetSpace.lookup_all_subsets: traverse; subsets_over is its loop.
RECURSIVE traverse(_, _, _, _)
RECURSIVE subsets_over(_, _, _, _, _)
subsets_over(trie, node, query_set, kids, results) ==
  IF kids = << >> THEN results
  ELSE LET key == Head(kids)
           child == Append(node, key)
           emitted == IF key \in query_set /\ trie[child] # None
                      THEN Append(results, trie[child]) ELSE results
           after == IF key \in query_set
                    THEN traverse(trie, child, query_set, emitted) ELSE results
       IN  subsets_over(trie, node, query_set, Tail(kids), after)

traverse(trie, node, query_set, results) ==
  subsets_over(trie, node, query_set, children(trie, node), results)

lookup_all_subsets(trie, query) == traverse(trie, << >>, SeqToSet(query), << >>)

\* SetSpace.get_all_elements.collect_paths.  current_path is ONE mutable set
\* shared by the whole recursion: add(elem) before the call, remove(elem)
\* after it, and set.remove raises KeyError when elem is no longer there.
\* The record returned carries the results, the set as the call leaves it,
\* and whether KeyError was raised.
RECURSIVE collect_paths(_, _, _)
RECURSIVE collect_over(_, _, _, _)
collect_over(trie, node, kids, acc) ==
  IF kids = << >> \/ acc.error THEN acc
  ELSE LET elem == Head(kids)
           sub == collect_paths(trie, Append(node, elem), acc.path \cup {elem})
       IN  IF sub.error \/ elem \notin sub.path
           THEN [results |-> acc.results \o sub.results,
                 path |-> sub.path, error |-> TRUE]
           ELSE collect_over(trie, node, Tail(kids),
                  [results |-> acc.results \o sub.results,
                   path |-> sub.path \ {elem}, error |-> FALSE])

collect_paths(trie, node, current_path) ==
  collect_over(trie, node, children(trie, node),
    [results |-> IF trie[node] # None
                 THEN <<[set |-> current_path, value |-> trie[node]]>>
                 ELSE << >>,
     path |-> current_path, error |-> FALSE])

\* all_paths.sort(key=len of the path set, reverse=True): a stable sort.
RECURSIVE sort_by_len_desc(_, _)
sort_by_len_desc(all_paths, k) ==
  IF k < 0 THEN << >>
  ELSE LET HasLen(x) == Cardinality(x.set) = k
       IN  SelectSeq(all_paths, HasLen) \o sort_by_len_desc(all_paths, k - 1)

\* The loop of get_all_elements over the sorted pairs; sets records, per
\* appended value, the path set it was taken for.
RECURSIVE cover_loop(_, _, _)
cover_loop(all_paths, covered, acc) ==
  IF all_paths = << >> THEN acc
  ELSE LET path_set == Head(all_paths).set
           value == Head(all_paths).value
       IN  IF ~(path_set \subseteq covered)
           THEN cover_loop(Tail(all_paths), covered \cup path_set,
                  [result_values |-> Append(acc.result_values, value),
                   sets |-> Append(acc.sets, path_set)])
           ELSE cover_loop(Tail(all_paths), covered, acc)

\* SetSpace.get_all_elements: [] for a trie without values, else the list of
\* the one expression E(*result_values); raised when collect_paths raised.
get_all_elements(trie) ==
  LET collected == collect_paths(trie, << >>, {})
      all_paths == sort_by_len_desc(collected.results, Cardinality(Labels))
      chosen == cover_loop(all_paths, {},
                           [result_values |-> << >>, sets |-> << >>])
  IN  IF collected.error
      THEN [raised |-> TRUE, result |-> << >>, sets |-> << >>]
      ELSE IF collected.results = << >>
      THEN [raised |-> FALSE, result |-> << >>, sets |-> << >>]
      ELSE [raised |-> FALSE, result |-> <<chosen.result_values>>,
            sets |-> chosen.sets]

\* ---- SpaceManager ----
\* Every operation returns a list of atoms.  E(a, b) is the sequence <<a, b>>;
\* the empty expression E(), where it is itself an element, is EmptyExpr.
EmptyExpr == 0 - 1

known(spcs, space_name) == space_name \in DOMAIN spcs

\* SpaceManager.add_to_space, the list it returns.
add_to_space(spcs, space_name, elements, value) ==
  IF known(spcs, space_name)
  THEN LET old_value == add(spcs[space_name], elements, value).old_value
       IN  IF old_value # None THEN <<old_value>> ELSE <<value>>
  ELSE << >>

\* SpaceManager.lookup_in_space: [E(*results)], which is [E()] for no results.
lookup_in_space(spcs, space_name, query) ==
  IF known(spcs, space_name)
  THEN <<lookup(spcs[space_name], query, FALSE)>>
  ELSE << >>

\* SpaceManager.partial_lookup_in_space: [E(*results)], or [E(E())].
partial_lookup_in_space(spcs, space_name, query) ==
  IF known(spcs, space_name)
  THEN LET results == lookup(spcs[space_name], query, TRUE)
       IN  IF results # << >> THEN <<results>> ELSE << <<EmptyExpr>> >>
  ELSE << >>

\* SpaceManager.lookup_all_subsets_in_space.
lookup_all_subsets_in_space(spcs, space_name, query) ==
  IF known(spcs, space_name)
  THEN <<lookup_all_subsets(spcs[space_name], query)>>
  ELSE << >>

\* SpaceManager.get_space_elements.
get_space_elements(spcs, space_name) ==
  IF known(spcs, space_name)
  THEN get_all_elements(spcs[space_name])
  ELSE [raised |-> FALSE, result |-> << >>, sets |-> << >>]

\* ---- state ----
\* spaces   SpaceManager.spaces: space name -> trie
\* reg      per space name, the registrations as the caller made them: label
\*          set -> the value of the latest add of a collection with that set
\* last     the latest call: operation, space name, the label set of its
\*          expression, the value added, what it returned, whether it raised;
\*          prev is reg's value for the added label set before an add
\* nAdds, nCreates   calls made so far, capped by the bounds
VARIABLES spaces, reg, last, nAdds, nCreates

vars == <<spaces, reg, last, nAdds, nCreates>>

Call(op, space_name, labels, value, result, raised, prev) ==
  [op |-> op, handle |-> space_name, labels |-> labels, value |-> value,
   result |-> result, raised |-> raised, prev |-> prev]

\* MANAGER = SpaceManager(): no space.
InitManager ==
  /\ spaces = << >>
  /\ reg = << >>
  /\ last = Call("init", 0, {}, None, << >>, FALSE, None)
  /\ nAdds = 0
  /\ nCreates = 0

\* The manager after the create_space() call that __main__ starts with.
Init ==
  /\ spaces = (1 :> EmptyTrie)
  /\ reg = (1 :> << >>)
  /\ last = Call("create_space", 1, {}, None, <<1>>, FALSE, None)
  /\ nAdds = 0
  /\ nCreates = 1

\* SpaceManager.create_space: uuid4().hex[:8] is 8 random hex digits, any of
\* the names; the new SetSpace is stored under it whatever was there.
CreateSpace ==
  /\ nCreates < MaxCreates
  /\ \E space_name \in Handles :
       /\ spaces' = (space_name :> EmptyTrie) @@ spaces
       /\ reg' = (space_name :> << >>) @@ reg
       /\ last' = Call("create_space", space_name, {}, None,
                       <<space_name>>, FALSE, None)
  /\ nCreates' = nCreates + 1
  /\ UNCHANGED nAdds

\* The operations below are called with a space name of `names`.
AddToSpace(names, max) ==
  /\ nAdds < max
  /\ \E space_name \in names, elements \in Exprs, value \in Values :
       LET S == SeqToSet(elements)
           prev == IF known(spaces, space_name) /\ S \in DOMAIN reg[space_name]
                   THEN reg[space_name][S] ELSE None
       IN  /\ last' = Call("add_to_space", space_name, S, value,
                           add_to_space(spaces, space_name, elements, value),
                           FALSE, prev)
           /\ IF known(spaces, space_name)
              THEN /\ spaces' = [spaces EXCEPT ![space_name] =
                                   add(@, elements, value).trie]
                   /\ reg' = [reg EXCEPT ![space_name] = (S :> value) @@ @]
                   /\ nAdds' = nAdds + 1
              ELSE UNCHANGED <<spaces, reg, nAdds>>
  /\ UNCHANGED nCreates

LookupInSpace(names, n) ==
  /\ \E space_name \in names, query \in Queries(n) :
       last' = Call("lookup_in_space", space_name, SeqToSet(query), None,
                    lookup_in_space(spaces, space_name, query), FALSE, None)
  /\ UNCHANGED <<spaces, reg, nAdds, nCreates>>

PartialLookupInSpace(names, n) ==
  /\ \E space_name \in names, query \in Queries(n) :
       last' = Call("partial_lookup_in_space", space_name, SeqToSet(query),
                    None, partial_lookup_in_space(spaces, space_name, query),
                    FALSE, None)
  /\ UNCHANGED <<spaces, reg, nAdds, nCreates>>

LookupAllSubsetsInSpace(names, n) ==
  /\ \E space_name \in names, query \in Queries(n) :
       last' = Call("lookup_all_subsets_in_space", space_name,
                    SeqToSet(query), None,
                    lookup_all_subsets_in_space(spaces, space_name, query),
                    FALSE, None)
  /\ UNCHANGED <<spaces, reg, nAdds, nCreates>>

GetSpaceElements(names) ==
  /\ \E space_name \in names :
       LET r == get_space_elements(spaces, space_name)
       IN  last' = Call("get_space_elements", space_name, {}, None,
                        r.result, r.raised, None)
  /\ UNCHANGED <<spaces, reg, nAdds, nCreates>>

\* One space, every call made with its name: registrations and the two
\* cover lookups.
Next ==
  \/ AddToSpace(DOMAIN spaces, MaxAdds)
  \/ LookupInSpace(DOMAIN spaces, MaxLen)
  \/ PartialLookupInSpace(DOMAIN spaces, MaxLen)

Spec == Init /\ [][Next]_vars

\* One space, every operation of the space, one add more and longer queries.
NextSpace ==
  \/ AddToSpace(DOMAIN spaces, MaxDeepAdds)
  \/ LookupInSpace(DOMAIN spaces, MaxDeepLen)
  \/ PartialLookupInSpace(DOMAIN spaces, MaxDeepLen)
  \/ LookupAllSubsetsInSpace(DOMAIN spaces, MaxDeepLen)
  \/ GetSpaceElements(DOMAIN spaces)

SpecSpace == Init /\ [][NextSpace]_vars

\* The registry: spaces are created, and calls name any space, known or not.
NextManager ==
  \/ CreateSpace
  \/ AddToSpace(Handles, MaxAdds)
  \/ LookupInSpace(Handles, MaxLen)
  \/ PartialLookupInSpace(Handles, MaxLen)
  \/ LookupAllSubsetsInSpace(Handles, MaxLen)
  \/ GetSpaceElements(Handles)

SpecManager == InitManager /\ [][NextManager]_vars

\* ---- vocabulary of the properties ----
LastKnown == known(spaces, last.handle)

LastTrie == spaces[last.handle]

LastReg == reg[last.handle]

\* An expression with the label set of the latest call.
LastQuery == SortedSeqOf(last.labels)

\* The nodes that hold a value: the registered sets, by their paths.
ValueNodes(trie) == {p \in DOMAIN trie : trie[p] # None}

SeqUnion(sets) == UNION {sets[i] : i \in DOMAIN sets}

Disjoint(sets) ==
  \A i, j \in DOMAIN sets : i # j => sets[i] \cap sets[j] = {}

StrictlyAscending(p) == \A i \in 1..(Len(p) - 1) : p[i] < p[i + 1]

\* Every add so far was given labels without a repeat.
BuiltFromSets(trie) == \A p \in DOMAIN trie : StrictlyAscending(p)

\* elem, picked while `elements` are left, cannot be matched: it is no child
\* of the root, or no node with a value lies below it on a path of labels
\* of `elements`.
CannotMatch(trie, elem, elements) ==
  \/ <<elem>> \notin DOMAIN trie
  \/ ~\E p \in ValueNodes(trie) :
        /\ Len(p) >= 1
        /\ p[1] = elem
        /\ \A i \in 2..Len(p) : p[i] \in elements

\* x occurs in no registered set contained in Q.
Unmatchable(trie, x, Q) ==
  ~\E p \in ValueNodes(trie) : x \in SeqToSet(p) /\ SeqToSet(p) \subseteq Q

\* ---- C1 ----
\* C1: whenever exact lookup(Q) returns a non-empty list, the list holds one
\* currently stored value per selected registered set, the selected sets are
\* pairwise disjoint, and their union is the label set of Q.
C1_LookupPartitionsQuery ==
  (last.op = "lookup_in_space" /\ LastKnown) =>
    LET run == lookup_run(LastTrie, LastQuery, FALSE)
    IN  /\ last.result = <<run.result>>
        /\ run.result # << >> =>
             /\ Len(run.cover) = Len(run.result)
             /\ \A i \in DOMAIN run.result :
                  \E p \in ValueNodes(LastTrie) :
                    /\ SeqToSet(p) = run.cover[i]
                    /\ LastTrie[p] = run.result[i]
             /\ Disjoint(run.cover)
             /\ SeqUnion(run.cover) = last.labels

\* An exact lookup returned the values of two registered sets.
C1_Witness ==
  /\ last.op = "lookup_in_space"
  /\ LastKnown
  /\ Len(last.result[1]) >= 2

\* ---- C5 ----
\* C5: exact lookup is all-or-nothing: if a label cannot be matched when it
\* is picked, lookup returns the empty list, whatever was matched before.
C5_ExactAllOrNothing ==
  (last.op = "lookup_in_space" /\ LastKnown) =>
    LET run == lookup_run(LastTrie, LastQuery, FALSE)
    IN  (\E i \in DOMAIN run.picks :
           CannotMatch(LastTrie, run.picks[i].elem, run.picks[i].elements))
        => last.result = << << >> >>

\* An exact lookup matched its first pick, could not match a later one, and
\* returned the empty list.
C5_Witness ==
  /\ last.op = "lookup_in_space"
  /\ LastKnown
  /\ last.result = << << >> >>
  /\ LET run == lookup_run(LastTrie, LastQuery, FALSE)
     IN  /\ Len(run.picks) >= 2
         /\ ~CannotMatch(LastTrie, run.picks[1].elem, run.picks[1].elements)
         /\ CannotMatch(LastTrie, run.picks[Len(run.picks)].elem,
                        run.picks[Len(run.picks)].elements)

\* ---- C6 ----
\* C6: partial_lookup(Q) never fails outright (it returns its one
\* expression), and for a label x of Q that occurs in no registered set
\* contained in Q it returns what partial_lookup(Q without x) returns.
C6_PartialDropsUnmatchable ==
  (last.op = "partial_lookup_in_space" /\ LastKnown) =>
    /\ Len(last.result) = 1
    /\ \A x \in last.labels :
         Unmatchable(LastTrie, x, last.labels) =>
           last.result = partial_lookup_in_space(spaces, last.handle,
                           SortedSeqOf(last.labels \ {x}))

\* A partial lookup with an unmatchable label returned a value all the same.
C6_Witness ==
  /\ last.op = "partial_lookup_in_space"
  /\ LastKnown
  /\ last.result # << <<EmptyExpr>> >>
  /\ \E x \in last.labels : Unmatchable(LastTrie, x, last.labels)

\* ---- C2 ----
\* C2: for every registered pair (K, V), the root's empty K included, and
\* every query Q, V is in lookup_all_subsets(Q) iff K is a subset of Q.
C2_SubsetEnumeration ==
  (last.op = "lookup_all_subsets_in_space" /\ LastKnown) =>
    \A p \in ValueNodes(LastTrie) :
      (\E i \in DOMAIN last.result[1] : last.result[1][i] = LastTrie[p])
        <=> SeqToSet(p) \subseteq last.labels

\* ---- C3 ----
\* C3: for a known handle, insert returns the value registered before for
\* the label set, or nothing when there was none, and an exact lookup of a
\* registered label set returns the list of its latest value.
C3_InsertReturnsPrevious ==
  /\ (last.op = "add_to_space" /\ LastKnown) =>
       last.result = IF last.prev = None THEN << >> ELSE <<last.prev>>
  /\ (last.op = "lookup_in_space" /\ LastKnown /\ last.labels \in DOMAIN LastReg) =>
       last.result = << <<LastReg[last.labels]>> >>

\* ---- C4 ----
\* C4: for a non-empty label set S inserted with V and not overwritten since,
\* whatever else was inserted, exact lookup(S) returns exactly [V].
C4_InsertThenLookup ==
  (/\ last.op = "lookup_in_space"
   /\ LastKnown
   /\ last.labels # {}
   /\ last.labels \in DOMAIN LastReg) =>
    last.result = << <<LastReg[last.labels]>> >>

\* ---- C7 ----
\* C7: get_all_elements() returns, and the union of the registered sets it
\* selects is the union of all labels ever inserted into the trie.
C7_MaximalCoverCoversAll ==
  (last.op = "get_space_elements" /\ LastKnown) =>
    /\ ~last.raised
    /\ SeqUnion(get_all_elements(LastTrie).sets) = UNION (DOMAIN LastReg)

\* ---- C8 ----
\* C8: every create() returns a handle that is no key of the registry,
\* registers an empty trie under it and leaves every other trie as it was.
C8_FreshHandles ==
  [][nCreates' = nCreates + 1 =>
       /\ last'.handle \notin DOMAIN spaces
       /\ spaces'[last'.handle] = EmptyTrie
       /\ \A h \in DOMAIN spaces : spaces'[h] = spaces[h]]_vars

\* ---- C9 ----
\* The non-empty registered sets, and whether some of them partition Q.
RegisteredSets(trie) == {SeqToSet(p) : p \in ValueNodes(trie)} \ {{}}

HasExactPartition(trie, Q) ==
  \E P \in SUBSET RegisteredSets(trie) :
    /\ UNION P = Q
    /\ \A X, Y \in P : X # Y => X \cap Y = {}

\* C9: whenever some registered sets partition the query exactly, exact
\* lookup returns a cover and not the failure result.  Stated for tries whose
\* registrations had no repeated label.
C9_LookupFindsCover ==
  (/\ last.op = "lookup_in_space"
   /\ LastKnown
   /\ last.labels # {}
   /\ BuiltFromSets(LastTrie)
   /\ HasExactPartition(LastTrie, last.labels)) =>
    last.result # << << >> >>

\* ---- C10 ----
\* C10: insert sorts and removes repeats: after an insert the node of the
\* sorted, repeat-free labels holds the value, and in every trie the labels
\* along any path from the root are strictly ascending.
C10_InsertCanonicalizes ==
  /\ (last.op = "add_to_space" /\ LastKnown) =>
       /\ LastQuery \in DOMAIN LastTrie
       /\ LastTrie[LastQuery] = last.value
  /\ \A h \in DOMAIN spaces : BuiltFromSets(spaces[h])

\* ---- on tries built from sets ----
\* C4 and C7 where no registration repeated a label.
C4_OnSets == BuiltFromSets(LastTrie) => C4_InsertThenLookup

C7_OnSets == BuiltFromSets(LastTrie) => C7_MaximalCoverCoversAll
====
